---- MODULE Spec2Model ----
(***************************************************************************)
(* Model of examples/hidden-states/hidden-states.cpp: the evaluation       *)
(* callback ggml_eval_layer_output (Ask / Deliver), the CSV writer         *)
(* ggml_print_tensor_to_csv, and the steps of main() around them.          *)
(***************************************************************************)
EXTENDS Integers, Sequences, FiniteSets, TLC

VARIABLES
    pc,         \* position of main(): start, open, register, loading, decode, run_ok,
                \* run_failed, exit, aborted, crashed
    exit_code,  \* value returned by main(), -1 while it has not returned
    out_csv,    \* state of the std::ofstream: "closed", "good" or "fail"
    csv,        \* the rows that reached the output file, in file order
    id,         \* static size_t id of ggml_eval_layer_output
    cb_data,    \* callback_data::data (std::vector<uint8_t>): its size and capacity
    g_model,    \* the global llama_model*: "null" or the architecture of the model
    cb_eval,    \* TRUE once params.cb_eval has been set to ggml_eval_layer_output
    need,       \* scheduler: the tensor whose Ask returned true and awaits Deliver
    last,       \* the most recent call of ggml_eval_layer_output and what it did
    n_deliver,  \* number of Deliver calls that returned
    n_written   \* number of Deliver calls during which rows reached the file

vars == <<pc, exit_code, out_csv, csv, id, cb_data, g_model, cb_eval, need, last,
          n_deliver, n_written>>

(***************************************************************************)
(* Bounds of the model.                                                    *)
(***************************************************************************)
\* Deliver calls the scheduler makes in one run of the graph.
MaxDelivers == 2
\* Largest extent of ne[0] and ne[1] of a node of the computed graph.
MaxExtent == 1
\* Largest ne[0] (in blocks), ne[1], and ne[2] = ne[3] of the tensors of SpecWalk.
MaxNe0 == 2
MaxNe1 == 3
MaxNeHi == 2

GGML_MAX_DIMS == 4

(***************************************************************************)
(* Tensors: name, type, op, ne[4], nb[4], and whether t->buffer is host.   *)
(***************************************************************************)
NoTensor == [name |-> ""]

Names == {"l_out-3", "attn_norm", "posnet_out-0", "convnext_out-1"}

Archs == {"LLM_ARCH_LLAMA", "LLM_ARCH_WAVTOKENIZER_DEC"}

\* ggml types: the five the writer decodes, a block-quantized one, and one
\* (bf16) that is neither.
Types == {"f32", "f16", "i8", "i16", "i32", "q4_0", "bf16"}

ggml_is_quantized(type) == type \in {"q4_0"}

ggml_blck_size(type) == IF ggml_is_quantized(type) THEN 32 ELSE 1

ggml_type_size(type) ==
    CASE type = "f32"  -> 4
      [] type = "f16"  -> 2
      [] type = "i8"   -> 1
      [] type = "i16"  -> 2
      [] type = "i32"  -> 4
      [] type = "bf16" -> 2
      [] type = "q4_0" -> 18

Layouts == {"contiguous", "transposed", "padded"}

\* A tensor of `type` with e[1] blocks per row and e[2], e[3], e[4] rows,
\* planes and batches, laid out in memory as `layout` says.
\*   contiguous: nb[0] = type size, nb[k] = nb[k-1] * ne[k-1]
\*   transposed: the view ggml_transpose gives of a contiguous (ne1,ne0,..) tensor
\*   padded:     a view of the leading columns of a tensor one block wider
Strides(type, e, layout) ==
    LET ts == ggml_type_size(type)
    IN  CASE layout = "contiguous" ->
               <<ts, ts * e[1], ts * e[1] * e[2], ts * e[1] * e[2] * e[3]>>
          [] layout = "transposed" ->
               <<ts * e[2], ts, ts * e[1] * e[2], ts * e[1] * e[2] * e[3]>>
          [] layout = "padded" ->
               <<ts, ts * (e[1] + 1), ts * (e[1] + 1) * e[2],
                 ts * (e[1] + 1) * e[2] * e[3]>>

MkTensor(name, type, e, layout, host) ==
    [name |-> name, type |-> type, op |-> "ADD",
     ne |-> <<e[1] * ggml_blck_size(type), e[2], e[3], e[4]>>,
     nb |-> Strides(type, e, layout),
     host |-> host]

\* Quantized rows cannot be transposed in place: ggml keeps them contiguous or padded.
LayoutsOf(type) == IF ggml_is_quantized(type) THEN Layouts \ {"transposed"} ELSE Layouts

\* The nodes of the graph llama_decode computes: types of each kind the
\* callback tells apart (decoded, block-quantized, neither), rows of up to
\* MaxExtent blocks.
GraphTypes == {"f32", "i8", "q4_0", "bf16"}

GraphTensors ==
    {MkTensor(n, ty, <<a, 1, 1, 1>>, "contiguous", h) :
        n \in Names, ty \in GraphTypes, a \in 0..MaxExtent, h \in BOOLEAN}

\* The tensors the walker is exercised on.
WalkTensors ==
    UNION {{MkTensor("l_out-3", ty, <<a, b, c, d>>, l, h) : l \in LayoutsOf(ty)} :
        ty \in Types, a \in 0..MaxNe0, b \in 0..MaxNe1,
        c \in 0..MaxNeHi, d \in 0..MaxNeHi, h \in BOOLEAN}

ggml_nelements(t) == t.ne[1] * t.ne[2] * t.ne[3] * t.ne[4]

\* ggml_nbytes: the byte footprint of the tensor, 0 when an extent is 0.
ggml_nbytes(t) ==
    IF ggml_nelements(t) = 0 THEN 0
    ELSE IF ggml_blck_size(t.type) = 1
         THEN ggml_type_size(t.type) + (t.ne[1] - 1) * t.nb[1] + (t.ne[2] - 1) * t.nb[2]
              + (t.ne[3] - 1) * t.nb[3] + (t.ne[4] - 1) * t.nb[4]
         ELSE (t.ne[1] * t.nb[1]) \div ggml_blck_size(t.type) + (t.ne[2] - 1) * t.nb[2]
              + (t.ne[3] - 1) * t.nb[3] + (t.ne[4] - 1) * t.nb[4]


(***************************************************************************)
(* ggml_ne_string: "{a, b, c, d}".                                         *)
(***************************************************************************)
RECURSIVE ne_string_from(_, _)
ne_string_from(ne, i) ==
    IF i > GGML_MAX_DIMS THEN ""
    ELSE ToString(ne[i]) \o (IF i + 1 <= GGML_MAX_DIMS THEN ", " ELSE "")
         \o ne_string_from(ne, i + 1)

ggml_ne_string(ne) == "{" \o ne_string_from(ne, 1) \o "}"

(***************************************************************************)
(* ggml_print_tensor_to_csv.  The result is the rows streamed to csv, in   *)
(* order, and whether GGML_ABORT was reached.  A row's value is recorded   *)
(* as the place it was read from: the buffer, the index into it, and the   *)
(* type it was read as.                                                    *)
(***************************************************************************)
\* ElemOffset with the strides of dimensions 0 and 1 exchanged.
ElemOffset_Swapped(nb, i0, i1, i2, i3) ==
    i3 * nb[4] + i2 * nb[3] + i1 * nb[1] + i0 * nb[2]

\* size_t i = i3 * nb[3] + i2 * nb[2] + i1 * nb[1] + i0 * nb[0]
ElemOffset(nb, i0, i1, i2, i3) == i3 * nb[4] + i2 * nb[3] + i1 * nb[2] + i0 * nb[1]

\* DecodedTypes with the final else (GGML_ABORT) missing: v is printed as it is.
DecodedTypes_NoAbort == {"f16", "f32", "i32", "i16", "i8", "bf16"}

\* The types with a branch in the if / else-if chain; any other reaches GGML_ABORT.
DecodedTypes == {"f16", "f32", "i32", "i16", "i8"}

\* One pass of the innermost loop body.
WriteElement(data, id_, t, i0, i1, i2, i3, acc) ==
    LET i == ElemOffset(t.nb, i0, i1, i2, i3)
        dequantized == ggml_is_quantized(t.type)   \* unquantized_data != nullptr
        v == IF dequantized
             THEN [buf |-> "unquantized_data", at |-> i, as |-> "f32"]
             ELSE [buf |-> data, at |-> i, as |-> t.type]
        row == [ID |-> id_, name |-> t.name, type |-> t.type, operation |-> t.op,
                full_ne |-> ggml_ne_string(t.ne),
                curr_ne |-> ggml_ne_string(<<i0, i1, i2, i3>>),
                value |-> v]
    IN  IF ~dequantized /\ t.type \notin DecodedTypes
        THEN [acc EXCEPT !.aborted = TRUE]
        ELSE [acc EXCEPT !.rows = Append(@, row)]

RECURSIVE LoopI0(_, _, _, _, _, _, _, _)
LoopI0(data, id_, t, i3, i2, i1, i0, acc) ==
    IF acc.aborted \/ ~(i0 < t.ne[1]) THEN acc
    ELSE LoopI0(data, id_, t, i3, i2, i1, i0 + 1,
                WriteElement(data, id_, t, i0, i1, i2, i3, acc))

RECURSIVE LoopI1(_, _, _, _, _, _, _)
LoopI1(data, id_, t, i3, i2, i1, acc) ==
    IF acc.aborted \/ ~(i1 < t.ne[2]) THEN acc
    ELSE LoopI1(data, id_, t, i3, i2, i1 + 1, LoopI0(data, id_, t, i3, i2, i1, 0, acc))

RECURSIVE LoopI2(_, _, _, _, _, _)
LoopI2(data, id_, t, i3, i2, acc) ==
    IF acc.aborted \/ ~(i2 < t.ne[3]) THEN acc
    ELSE LoopI2(data, id_, t, i3, i2 + 1, LoopI1(data, id_, t, i3, i2, 0, acc))

RECURSIVE LoopI3(_, _, _, _, _)
LoopI3(data, id_, t, i3, acc) ==
    IF acc.aborted \/ ~(i3 < t.ne[4]) THEN acc
    ELSE LoopI3(data, id_, t, i3 + 1, LoopI2(data, id_, t, i3, 0, acc))

ggml_print_tensor_to_csv(data, id_, t) ==
    LoopI3(data, id_, t, 0, [rows |-> <<>>, aborted |-> FALSE])

(***************************************************************************)
(* ggml_eval_layer_output, ask == true.                                    *)
(***************************************************************************)
Min(a, b) == IF a < b THEN a ELSE b

\* std::strncmp: 0 when the first n characters (or the whole strings, when
\* shorter) are equal; 1 stands for every non-zero result.
strncmp(s1, s2, n) ==
    IF SubSeq(s1, 1, Min(n, Len(s1))) = SubSeq(s2, 1, Min(n, Len(s2))) THEN 0 ELSE 1

\* AskOutcomes with the architecture test moved in front of the "l_out" test.
AskOutcomes_ArchFirst(name, model) ==
    IF model = "null"
    THEN {[ret |-> r, read_arch |-> TRUE] : r \in {"true", "false", "crash"}}
    ELSE IF model = "LLM_ARCH_WAVTOKENIZER_DEC"
            /\ (strncmp(name, "posnet_out", 10) = 0
                \/ strncmp(name, "convnext_out", 12) # 0)
    THEN {[ret |-> "true", read_arch |-> TRUE]}
    ELSE IF strncmp(name, "l_out", 5) = 0
    THEN {[ret |-> "true", read_arch |-> TRUE]}
    ELSE {[ret |-> "false", read_arch |-> TRUE]}

\* AskOutcomes with a result that depends on more than the name and the
\* architecture: names other than "l_out" may be accepted or not.
AskOutcomes_Unstable(name, model) ==
    IF strncmp(name, "l_out", 5) = 0
    THEN {[ret |-> "true", read_arch |-> FALSE]}
    ELSE {[ret |-> r, read_arch |-> TRUE] : r \in {"true", "false"}}

\* The outcomes of the ask branch for a tensor name and the value of g_model:
\* what is returned and whether g_model->arch was read.  Reading it through
\* a null g_model is undefined: the call may return either value or crash.
AskOutcomes(name, model) ==
    IF strncmp(name, "l_out", 5) = 0
    THEN {[ret |-> "true", read_arch |-> FALSE]}
    ELSE IF model = "null"
    THEN {[ret |-> r, read_arch |-> TRUE] : r \in {"true", "false", "crash"}}
    ELSE IF model = "LLM_ARCH_WAVTOKENIZER_DEC"
            /\ (strncmp(name, "posnet_out", 10) = 0
                \/ strncmp(name, "convnext_out", 12) # 0)
    THEN {[ret |-> "true", read_arch |-> TRUE]}
    ELSE {[ret |-> "false", read_arch |-> TRUE]}

(***************************************************************************)
(* ggml_eval_layer_output, ask == false.                                   *)
(***************************************************************************)
\* Resize with shrink_to_fit() after the resize: the storage is given back.
Resize_Shrink(v, n) == [size |-> n, cap |-> n]

\* std::vector::resize(n): the size becomes n, the capacity never drops.
Resize(v, n) == [size |-> n, cap |-> IF n > v.cap THEN n ELSE v.cap]

\* cb_data->data after the copy from device memory, when one is needed.
Transfer(t, v) == IF ~t.host THEN Resize(v, ggml_nbytes(t)) ELSE v

\* No ggml_backend_tensor_get was made by the call.
NoCopy == [offset |-> -1, size |-> 0]

\* Copied with the test of is_host missing: every tensor is fetched.
Copied_Always(t) == [offset |-> 0, size |-> ggml_nbytes(t)]

\* ggml_backend_tensor_get(t, cb_data->data.data(), 0, n_bytes), made for a
\* tensor that is not in host memory only.
Copied(t) == IF ~t.host THEN [offset |-> 0, size |-> ggml_nbytes(t)] ELSE NoCopy

\* Serialize with id incremented before the tensor is printed.
Serialize_PreIncrement(t, id_) ==
    IF ~ggml_is_quantized(t.type)
    THEN ggml_print_tensor_to_csv(IF t.host THEN "t->data" ELSE "cb_data", id_ + 1, t)
    ELSE [rows |-> <<>>, aborted |-> FALSE]

\* What the call streams to out_csv and whether it aborts.
Serialize(t, id_) ==
    IF ~ggml_is_quantized(t.type)
    THEN ggml_print_tensor_to_csv(IF t.host THEN "t->data" ELSE "cb_data", id_, t)
    ELSE [rows |-> <<>>, aborted |-> FALSE]

\* NextId with the increment inside the if (!ggml_is_quantized(...)) block.
NextId_InsideIf(t, id_) == IF ~ggml_is_quantized(t.type) THEN id_ + 1 ELSE id_

\* NextId with `static` dropped from the declaration of id: every call starts from 0.
NextId_NotStatic(t, id_) == 0 + 1

\* id++
NextId(t, id_) == id_ + 1

\* DeliverReturn with false returned for the tensors that are not serialized.
DeliverReturn_Skipped(t) == IF ggml_is_quantized(t.type) THEN "false" ELSE "true"

\* return true, the last statement of the deliver branch.
DeliverReturn(t) == "true"

\* StreamWrite with init_csv_columns called again by every write.
StreamWrite_WithHeader(rows) ==
    IF out_csv = "good"
    THEN csv \o <<[ID |-> "ID", name |-> "name", type |-> "type",
                   operation |-> "operation", full_ne |-> "full_ne",
                   curr_ne |-> "curr_ne", value |-> "value"]>> \o rows
    ELSE csv

\* operator<< on out_csv has no effect unless the stream is good.
StreamWrite(rows) == IF out_csv = "good" THEN csv \o rows ELSE csv

(***************************************************************************)
(* The program.                                                            *)
(***************************************************************************)
Header == [ID |-> "ID", name |-> "name", type |-> "type", operation |-> "operation",
           full_ne |-> "full_ne", curr_ne |-> "curr_ne", value |-> "value"]

NoCall == [kind |-> "none", t |-> NoTensor, model |-> "null", ret |-> "none",
           read_arch |-> FALSE, rows |-> 0, copy |-> NoCopy]

Init ==
    /\ pc = "start"
    /\ exit_code = -1
    /\ out_csv = "closed"
    /\ csv = <<>>
    /\ id = 0
    /\ cb_data = [size |-> 0, cap |-> 0]
    /\ g_model = "null"
    /\ cb_eval = FALSE
    /\ need = NoTensor
    /\ last = NoCall
    /\ n_deliver = 0
    /\ n_written = 0

\* main: common_params_parse fails and main returns 1, or succeeds.
ParseArgs ==
    /\ pc = "start"
    /\ \E ok \in BOOLEAN :
          IF ok THEN pc' = "open" /\ exit_code' = exit_code
                ELSE pc' = "exit" /\ exit_code' = 1
    /\ UNCHANGED <<out_csv, csv, id, cb_data, g_model, cb_eval, need, last,
                   n_deliver, n_written>>

\* main: out_csv.open(...) followed by init_csv_columns(out_csv).  The open
\* succeeds or fails; its result is not tested, and the header is streamed.
OpenOutput ==
    /\ pc = "open"
    /\ \E ok \in BOOLEAN :
          /\ out_csv' = IF ok THEN "good" ELSE "fail"
          /\ csv' = IF ok THEN Append(csv, Header) ELSE csv
    /\ pc' = "register"
    /\ UNCHANGED <<exit_code, id, cb_data, g_model, cb_eval, need, last,
                   n_deliver, n_written>>

\* main: params.cb_eval = ggml_eval_layer_output, then common_init_from_params
\* is entered with the callback installed.
RegisterCallback ==
    /\ pc = "register"
    /\ cb_eval' = TRUE
    /\ pc' = "loading"
    /\ UNCHANGED <<exit_code, out_csv, csv, id, cb_data, g_model, need, last,
                   n_deliver, n_written>>

\* main: common_init_from_params returned no model or no context.
InitFailed ==
    /\ pc = "loading"
    /\ need = NoTensor
    /\ pc' = "exit"
    /\ exit_code' = 1
    /\ UNCHANGED <<out_csv, csv, id, cb_data, g_model, cb_eval, need, last,
                   n_deliver, n_written>>

\* main: g_model = model, then run() enters llama_decode.
InitDone ==
    /\ pc = "loading"
    /\ need = NoTensor
    /\ \E arch \in Archs : g_model' = arch
    /\ pc' = "decode"
    /\ UNCHANGED <<exit_code, out_csv, csv, id, cb_data, cb_eval, need, last,
                   n_deliver, n_written>>

\* run: llama_decode returns, with or without an error, and run() returns
\* false or true to main.
DecodeReturn ==
    /\ pc = "decode"
    /\ need = NoTensor
    /\ \E failed \in BOOLEAN : pc' = IF failed THEN "run_failed" ELSE "run_ok"
    /\ UNCHANGED <<exit_code, out_csv, csv, id, cb_data, g_model, cb_eval, need, last,
                   n_deliver, n_written>>

\* ExitStatus with the test of OK missing.
ExitStatus_Zero(OK) == 0

\* main: if (!OK) return 1; ... return 0;
ExitStatus(OK) == IF ~OK THEN 1 ELSE 0

\* main: returns after run(); out_csv is flushed and closed as the process
\* exits, so what was streamed stays in the file.
MainReturn ==
    /\ pc \in {"run_failed", "run_ok"}
    /\ exit_code' = ExitStatus(pc = "run_ok")
    /\ pc' = "exit"
    /\ UNCHANGED <<out_csv, csv, id, cb_data, g_model, cb_eval, need, last,
                   n_deliver, n_written>>

\* Needed with the result of the Ask ignored: every node asked about is delivered.
Needed_Ignored(ret, t) == IF ret # "crash" THEN t ELSE NoTensor

\* The scheduler's `need`: the node is delivered after it is computed only
\* when its Ask returned true.
Needed(ret, t) == IF ret = "true" THEN t ELSE NoTensor

\* The callback is installed and the process is alive.
Callable == cb_eval /\ pc \in {"loading", "decode"}

\* ggml_eval_layer_output(t, true, &cb_data): the scheduler asks about node t.
Ask(t) ==
    /\ Callable
    /\ need = NoTensor
    /\ id < MaxDelivers
    /\ \E o \in AskOutcomes(t.name, g_model) :
          /\ last' = [kind |-> "ask", t |-> t, model |-> g_model, ret |-> o.ret,
                      read_arch |-> o.read_arch, rows |-> 0, copy |-> NoCopy]
          /\ need' = Needed(o.ret, t)
          /\ pc' = IF o.ret = "crash" THEN "crashed" ELSE pc
    /\ UNCHANGED <<exit_code, out_csv, csv, id, cb_data, g_model, cb_eval,
                   n_deliver, n_written>>

\* ggml_eval_layer_output(need, false, &cb_data): the scheduler delivers the
\* node whose Ask returned true.
Deliver ==
    /\ Callable
    /\ need # NoTensor
    /\ LET t == need
           r == Serialize(t, id)
           written == StreamWrite(r.rows)
       IN  /\ cb_data' = Transfer(t, cb_data)
           /\ csv' = written
           /\ IF r.aborted
              THEN /\ pc' = "aborted"
                   /\ UNCHANGED <<id, n_deliver, n_written>>
              ELSE /\ pc' = pc
                   /\ id' = NextId(t, id)
                   /\ n_deliver' = n_deliver + 1
                   /\ n_written' = IF Len(written) > Len(csv) THEN n_written + 1
                                   ELSE n_written
           /\ last' = [kind |-> "deliver", t |-> t, model |-> g_model,
                       ret |-> IF r.aborted THEN "abort" ELSE DeliverReturn(t),
                       read_arch |-> FALSE, rows |-> Len(written) - Len(csv),
                       copy |-> Copied(t)]
    /\ need' = NoTensor
    /\ UNCHANGED <<exit_code, out_csv, g_model, cb_eval>>

\* llama_decode computes the next node of the graph and asks about it.  The
\* graph is computed inside llama_decode only: with params.warmup = false
\* common_init_from_params computes none.
\* A Deliver that returned false ends the computation: no node follows it.
ComputeNode ==
    /\ pc = "decode"
    /\ ~(last.kind = "deliver" /\ last.ret = "false")
    /\ \E t \in GraphTensors : Ask(t)

Next ==
    \/ ParseArgs
    \/ OpenOutput
    \/ RegisterCallback
    \/ InitFailed
    \/ InitDone
    \/ DecodeReturn
    \/ MainReturn
    \/ ComputeNode
    \/ Deliver

Spec == Init /\ [][Next]_vars

(***************************************************************************)
(* One Deliver on its own: the callback is given, in deliver mode, any     *)
(* tensor of WalkTensors whose Ask was accepted.                           *)
(***************************************************************************)
WalkInit ==
    /\ pc = "decode"
    /\ exit_code = -1
    /\ out_csv = "good"
    /\ csv = <<Header>>
    /\ id = 0
    /\ cb_data = [size |-> 0, cap |-> 0]
    /\ g_model \in Archs
    /\ cb_eval = TRUE
    /\ need \in WalkTensors
    /\ last = [kind |-> "ask", t |-> need, model |-> g_model, ret |-> "true",
               read_arch |-> FALSE, rows |-> 0, copy |-> NoCopy]
    /\ n_deliver = 0
    /\ n_written = 0

WalkNext == Deliver

SpecWalk == WalkInit /\ [][WalkNext]_vars

(***************************************************************************)
(* The ask branch on its own: any node name, any value of g_model (null    *)
(* until main assigns it), any number of times.                            *)
(***************************************************************************)
AskInit ==
    /\ exit_code = -1
    /\ out_csv \in {"good", "fail"}
    /\ csv = IF out_csv = "good" THEN <<Header>> ELSE <<>>
    /\ id = 0
    /\ cb_data = [size |-> 0, cap |-> 0]
    /\ g_model \in Archs \cup {"null"}
    /\ pc = IF g_model = "null" THEN "loading" ELSE "decode"
    /\ cb_eval = TRUE
    /\ need = NoTensor
    /\ last = NoCall
    /\ n_deliver = 0
    /\ n_written = 0

AskAny == \E t \in GraphTensors : Ask(t)

SpecAsk == AskInit /\ [][AskAny]_vars

(***************************************************************************)
(* ggml_print_tensor_to_csv on its own, applied to block-quantized         *)
(* tensors: the branch that dequantizes the whole tensor first.            *)
(***************************************************************************)
PrintTensors ==
    UNION {{MkTensor("l_out-3", "q4_0", <<a, b, c, 1>>, l, h) : l \in LayoutsOf("q4_0")} :
        a \in 0..MaxExtent, b \in 0..MaxNeHi, c \in 0..MaxNeHi, h \in BOOLEAN}

PrintInit ==
    /\ pc = "decode"
    /\ exit_code = -1
    /\ out_csv = "good"
    /\ csv = <<Header>>
    /\ id \in 0..MaxDelivers
    /\ cb_data = [size |-> 0, cap |-> 0]
    /\ g_model \in Archs
    /\ cb_eval = TRUE
    /\ need \in PrintTensors
    /\ last = NoCall
    /\ n_deliver = 0
    /\ n_written = 0

\* ggml_print_tensor_to_csv(out_csv, data, id, t)
PrintTensor ==
    /\ need # NoTensor
    /\ LET t == need
           r == ggml_print_tensor_to_csv(IF t.host THEN "t->data" ELSE "cb_data", id, t)
       IN  /\ csv' = StreamWrite(r.rows)
           /\ last' = [kind |-> "print", t |-> t, model |-> g_model,
                       ret |-> IF r.aborted THEN "abort" ELSE "void",
                       read_arch |-> FALSE, rows |-> Len(r.rows), copy |-> NoCopy]
    /\ need' = NoTensor
    /\ UNCHANGED <<pc, exit_code, out_csv, id, cb_data, g_model, cb_eval,
                   n_deliver, n_written>>

SpecPrint == PrintInit /\ [][PrintTensor]_vars

(***************************************************************************)
(* One Deliver of a tensor whose name is any string ggml_set_name accepts, *)
(* and the text of the rows it streams.                                    *)
(***************************************************************************)
RowNames == {"l_out-3", "l_out,3", "l_out-3 (view)"}

RowTensors ==
    {MkTensor(n, ty, <<a, b, 1, 1>>, "contiguous", h) :
        n \in RowNames, ty \in {"f32", "i8"}, a \in 0..MaxNe0, b \in 0..MaxNe1,
        h \in BOOLEAN}

RowInit ==
    /\ pc = "decode"
    /\ exit_code = -1
    /\ out_csv = "good"
    /\ csv = <<Header>>
    /\ id = 0
    /\ cb_data = [size |-> 0, cap |-> 0]
    /\ g_model \in Archs
    /\ cb_eval = TRUE
    /\ need \in RowTensors
    /\ last = [kind |-> "ask", t |-> need, model |-> g_model, ret |-> "true",
               read_arch |-> FALSE, rows |-> 0, copy |-> NoCopy]
    /\ n_deliver = 0
    /\ n_written = 0

SpecRow == RowInit /\ [][Deliver]_vars

\* operator<<(float): the element itself is not part of the model; the
\* offsets stand for the forms the text of a float takes.
FloatText(v) ==
    LET forms == <<"0", "-1.5", "3.14159", "1e-05", "inf", "-nan">>
    IN  forms[(v.at % Len(forms)) + 1]

\* The characters streamed for one element: the seven values, commas between
\* them, the two shape strings between double quotes, a line feed at the end.
RowText(row) ==
    ToString(row.ID) \o "," \o row.name \o "," \o row.type \o "," \o row.operation
    \o "," \o "\"" \o row.full_ne \o "\"," \o "\"" \o row.curr_ne \o "\","
    \o FloatText(row.value) \o "\n"

(***************************************************************************)
(* Properties.                                                             *)
(***************************************************************************)
HasPrefix(s, p) == Len(s) >= Len(p) /\ SubSeq(s, 1, Len(p)) = p

Delivered == last.kind = "deliver" /\ last.ret = "true"

\* C1: every Deliver that returns has appended ne[0]*ne[1]*ne[2]*ne[3] data
\* rows to the (open) output, whatever the encoding and the residence.
C1_RowsEqualElements ==
    (Delivered /\ out_csv = "good") => last.rows = ggml_nelements(last.t)

\* The names ask mode is meant to accept under an architecture.
Recognized(name, model) ==
    \/ HasPrefix(name, "l_out")
    \/ /\ model = "LLM_ARCH_WAVTOKENIZER_DEC"
       /\ HasPrefix(name, "posnet_out") \/ HasPrefix(name, "convnext_out")

Asked == last.kind = "ask" /\ last.model # "null"

\* C2: under every architecture, Ask returns false for a name that matches
\* none of the recognized prefixes.
C2_OthersRejected ==
    (Asked /\ ~Recognized(last.t.name, last.model)) => last.ret = "false"

\* C3: a name beginning with "posnet_out" or "convnext_out" is accepted by
\* Ask under the WavTokenizer decoder and under no other architecture.
C3_ArchPrefixes ==
    (Asked /\ (HasPrefix(last.t.name, "posnet_out")
               \/ HasPrefix(last.t.name, "convnext_out")))
    => (last.ret = IF last.model = "LLM_ARCH_WAVTOKENIZER_DEC" THEN "true" ELSE "false")

\* C4: Ask accepts every name beginning with "l_out", under every
\* architecture and also while g_model is still null, without reading
\* g_model->arch.
C4_LOutAccepted ==
    (last.kind = "ask" /\ HasPrefix(last.t.name, "l_out"))
    => (last.ret = "true" /\ ~last.read_arch)

C4_Witness ==
    /\ last.kind = "ask"
    /\ last.t.name = "l_out-3"
    /\ last.model = "null"
    /\ last.ret = "true"

\* C5 as claimed, for the first Deliver of a session with the output open and
\* a tensor that is not block-quantized: the counter equals the number of
\* delivered tensors whose rows were written, so a Deliver that writes no
\* rows does not advance it.
C5_CountsWrittenTensors ==
    (Delivered /\ n_deliver = 1 /\ out_csv = "good" /\ ~ggml_is_quantized(last.t.type))
    => id = n_written

\* C5 as the code has it: the counter equals the number of Deliver calls
\* that returned, whether or not the call wrote any row.
C5_CountsDelivers == id = n_deliver

C5_Witness ==
    /\ Delivered
    /\ last.rows = 0
    /\ n_deliver = 2
    /\ n_written = 1
    /\ id = 2

\* C6: a step changes the counter only by a Deliver that returns, which adds
\* exactly 1; every other step leaves it as it is, so it never decreases and
\* is never reset.
C6_CounterSteps ==
    [][ /\ id' \in {id, id + 1}
        /\ (id' = id + 1) <=> (n_deliver' = n_deliver + 1 /\ last'.kind = "deliver"
                               /\ last'.ret = "true")
        /\ (n_deliver' = n_deliver) => (id' = id) ]_vars

C6_Witness == id = 2 /\ pc = "exit" /\ exit_code = 0

\* C7: a step in which the callback runs in deliver mode starts where the
\* most recent call was an Ask of the same node that returned true; rows
\* reach the file in such steps only.
DeliverStep == last'.kind = "deliver" /\ (id' # id \/ (pc' = "aborted" /\ pc # "aborted"))

C7_TwoPhase ==
    [][ /\ DeliverStep => (last.kind = "ask" /\ last.ret = "true" /\ last.t = last'.t)
        /\ (Len(csv') > Len(csv) /\ pc # "open") => DeliverStep ]_vars

C7_Witness == Delivered /\ last.rows > 0 /\ n_deliver = 2

\* The data rows the most recent call appended to the file.
LastRows == SubSeq(csv, Len(csv) - last.rows + 1, Len(csv))

\* C8: the rows written for one tensor are one per multi-index, i0 fastest
\* and i3 slowest: row number i0 + e0*(i1 + e1*(i2 + e2*i3)) (from 0) shows
\* curr_ne {i0, i1, i2, i3} and the value read at byte offset
\* i3*s3 + i2*s2 + i1*s1 + i0*s0.
C8_WalkerOrder ==
    (Delivered /\ ~ggml_is_quantized(last.t.type)) =>
        LET e == last.t.ne
            s == last.t.nb
        IN  /\ Len(LastRows) = e[1] * e[2] * e[3] * e[4]
            /\ \A i0 \in 0..(e[1] - 1), i1 \in 0..(e[2] - 1),
                  i2 \in 0..(e[3] - 1), i3 \in 0..(e[4] - 1) :
                  LET row == LastRows[1 + i0 + e[1] * (i1 + e[2] * (i2 + e[3] * i3))]
                  IN  /\ row.curr_ne = ggml_ne_string(<<i0, i1, i2, i3>>)
                      /\ row.value.at = i3 * s[4] + i2 * s[3] + i1 * s[2] + i0 * s[1]
                      /\ row.full_ne = ggml_ne_string(e)

\* The (2,3,1,1) f32 tensor, transposed in memory: 6 rows, {0, 0, 0, 0} first
\* and {1, 2, 0, 0} last.
C8_Witness ==
    /\ Delivered
    /\ last.t.type = "f32"
    /\ last.t.ne = <<2, 3, 1, 1>>
    /\ last.t.nb = <<12, 4, 24, 24>>
    /\ Len(LastRows) = 6
    /\ LastRows[1].curr_ne = "{0, 0, 0, 0}"
    /\ LastRows[2].curr_ne = "{1, 0, 0, 0}"
    /\ LastRows[2].value.at = 12
    /\ LastRows[6].curr_ne = "{1, 2, 0, 0}"

\* C9: when the output cannot be opened the program exits with a non-zero
\* status before the callback is registered, and writes no row.
C9_OpenFailureFatal ==
    out_csv = "fail" =>
        /\ ~cb_eval
        /\ pc \in {"register", "exit"}
        /\ pc = "exit" => exit_code # 0
        /\ csv = <<>>

\* An encoding the writer has no branch for and that is not block-quantized.
Unsupported(type) ==
    type \notin {"f32", "f16", "i8", "i16", "i32"} /\ ~ggml_is_quantized(type)

\* C10 as claimed: a Deliver of a tensor of an unsupported encoding aborts
\* for every shape, before any row of it is written.
C10_UnsupportedAborts ==
    (last.kind = "deliver" /\ Unsupported(last.t.type))
    => (last.ret = "abort" /\ last.rows = 0)

\* C10 as the code has it: the Deliver aborts when the tensor has at least
\* one element and returns when an extent is 0; no row is written either way.
C10_UnsupportedAbortsNonEmpty ==
    (last.kind = "deliver" /\ Unsupported(last.t.type))
    => /\ last.rows = 0
       /\ last.ret = IF ggml_nelements(last.t) > 0 THEN "abort" ELSE "true"
       /\ (last.ret = "abort") <=> (pc = "aborted")

C10_Witness ==
    /\ last.kind = "deliver"
    /\ last.t.type = "bf16"
    /\ ggml_nelements(last.t) > 1
    /\ last.ret = "abort"
    /\ pc = "aborted"
    /\ csv = <<Header>>

\* C11: the header is the first row of the output and the only header in
\* it; it is written before the callback is registered, so before any data
\* row, and no later step writes another.  (Nothing at all reaches an
\* output that could not be opened.)
C11_HeaderOnce ==
    /\ cb_eval => out_csv # "closed"
    /\ out_csv = "good" => /\ Len(csv) >= 1
                           /\ csv[1] = Header
                           /\ \A k \in 2..Len(csv) : csv[k] # Header
    /\ out_csv # "good" => csv = <<>>
    /\ (n_deliver > 0 \/ need # NoTensor) => out_csv # "closed"

C11_Witness ==
    /\ pc = "exit"
    /\ n_written = 2
    /\ Len(csv) = 3
    /\ csv[1] = Header
    /\ csv[2] # Header /\ csv[3] # Header

\* C12: a Deliver that returns returns true, whatever the residence, the
\* encoding and the shape of the tensor.
C12_DeliverReturnsTrue ==
    (last.kind = "deliver" /\ pc # "aborted") => last.ret = "true"

C12_Witness ==
    /\ last.kind = "deliver"
    /\ ggml_is_quantized(last.t.type)
    /\ ~last.t.host
    /\ ggml_nelements(last.t) > 0
    /\ last.ret = "true"
    /\ id = 1

\* C14: when llama_decode fails main exits with a non-zero status, and no
\* step removes a row from the output: what was streamed before the failure
\* is still there, unchanged, when the program exits.
C14_FailureKeepsRows ==
    [][ /\ HasPrefix(csv', csv)
        /\ pc = "run_failed" => /\ pc' = "exit"
                                /\ exit_code' # 0
                                /\ csv' = csv ]_vars

C14_Witness ==
    /\ pc = "exit"
    /\ exit_code = 1
    /\ n_deliver = 2
    /\ Len(csv) = 2
    /\ csv[1] = Header

\* C15: a call in ask mode leaves the counter, the scratch buffer and the
\* output as they were; its result is fixed by the node name and the
\* architecture, so asking again about the same name gives the same answer.
C15_AskPure ==
    [][ last'.kind = "ask" =>
          /\ UNCHANGED <<id, cb_data, csv, out_csv, n_deliver, n_written>>
          /\ Cardinality(AskOutcomes(last'.t.name, last'.model)) = 1
          /\ (last.kind = "ask" /\ last.t.name = last'.t.name
                                /\ last.model = last'.model)
             => last'.ret = last.ret ]_vars

C15_Witness ==
    /\ last.kind = "ask"
    /\ last.ret = "false"
    /\ n_deliver = 1
    /\ cb_data.size > 0
    /\ Len(csv) = 2
    /\ id = 1

\* C17 as claimed: after every Deliver, of a host tensor or not, the scratch
\* buffer is at least as large as the tensor, and no Deliver makes it smaller.
C17_ScratchCoversNeverShrinks ==
    [][ DeliverStep => /\ cb_data'.size >= ggml_nbytes(last'.t)
                       /\ cb_data'.size >= cb_data.size ]_vars

\* C17 as the code has it: a Deliver of a tensor that is not in host memory
\* leaves the scratch buffer with exactly the tensor's byte footprint as its
\* size (smaller than before when the tensor is smaller), a Deliver of a
\* host tensor leaves it alone, and its capacity never decreases.
C17_ScratchCoversNonHost ==
    [][ DeliverStep => /\ ~last'.t.host => cb_data'.size = ggml_nbytes(last'.t)
                       /\ last'.t.host => cb_data' = cb_data
                       /\ cb_data'.cap >= cb_data.cap
                       /\ cb_data'.cap >= cb_data'.size ]_vars

C17_Witness ==
    /\ Delivered
    /\ ~last.t.host
    /\ n_deliver = 2
    /\ cb_data.size = ggml_nbytes(last.t)
    /\ cb_data.size < cb_data.cap

\* The rows a step appends to the output.
NewRows == SubSeq(csv', Len(csv) + 1, Len(csv'))

\* C18: a Deliver of a host tensor copies nothing, leaves the scratch buffer
\* as it was and reads the values from t->data; a Deliver of any other tensor
\* resizes the scratch buffer to ggml_nbytes(t), copies that many bytes into
\* it from offset 0 and reads the values from the scratch buffer.
C18_Transfer ==
    [][ DeliverStep =>
          IF last'.t.host
          THEN /\ last'.copy = NoCopy
               /\ cb_data' = cb_data
               /\ \A k \in 1..Len(NewRows) : NewRows[k].value.buf = "t->data"
          ELSE /\ last'.copy = [offset |-> 0, size |-> ggml_nbytes(last'.t)]
               /\ cb_data'.size = ggml_nbytes(last'.t)
               /\ \A k \in 1..Len(NewRows) : NewRows[k].value.buf = "cb_data" ]_vars

C18_Witness ==
    /\ Delivered
    /\ last.t.host
    /\ last.rows = 1
    /\ LastRows[1].value.buf = "t->data"
    /\ cb_data.size > 0
    /\ last.copy = NoCopy

RECURSIVE SplitFields(_, _, _, _, _)
SplitFields(line, k, quoted, field, fields) ==
    IF k > Len(line) THEN Append(fields, field)
    ELSE LET c == SubSeq(line, k, k)
         IN  IF c = "\"" /\ (quoted \/ field = "")
             THEN SplitFields(line, k + 1, ~quoted, field, fields)
             ELSE IF c = "," /\ ~quoted
             THEN SplitFields(line, k + 1, FALSE, "", Append(fields, field))
             ELSE SplitFields(line, k + 1, quoted, field \o c, fields)

ParseRecord(text) == SplitFields(text, 1, FALSE, "", <<>>)

\* C13: every data row reads back as seven fields, in the order ID, name,
\* type, operation, full shape, current index, value, the two shape fields
\* as "{a, b, c, d}", whatever the name of the tensor.
C13_SevenFields ==
    \A k \in 2..Len(csv) :
        LET text   == RowText(csv[k])
            fields == ParseRecord(SubSeq(text, 1, Len(text) - 1))
        IN  /\ SubSeq(text, Len(text), Len(text)) = "\n"
            /\ Len(fields) = 7
            /\ fields[1] = ToString(csv[k].ID)
            /\ fields[2] = csv[k].name
            /\ fields[3] = csv[k].type
            /\ fields[4] = csv[k].operation
            /\ fields[5] = csv[k].full_ne
            /\ fields[6] = csv[k].curr_ne
            /\ fields[7] = FloatText(csv[k].value)

\* C16: for a block-quantized tensor the row of multi-index (i0,i1,i2,i3)
\* shows the float at index i0 + ne0*(i1 + ne1*(i2 + ne2*i3)) of the
\* dequantized buffer, an index below the number of elements.
C16_ElementIndex ==
    (last.kind = "print" /\ ggml_is_quantized(last.t.type)) =>
        \A k \in 1..Len(LastRows) :
            /\ LastRows[k].value.buf = "unquantized_data"
            /\ LastRows[k].value.at = k - 1
            /\ LastRows[k].value.at < ggml_nelements(last.t)
====
